---------------------------- MODULE Spec2Model ----------------------------
(***************************************************************************)
(* Johnson's Rule two-machine flow-shop scheduler (src/flow.py).           *)
(*                                                                         *)
(* One run of the script is modelled: the task table holds the processing  *)
(* times the editor supplies, the "Calculate Optimal Sequence" handler     *)
(* validates them and runs johnsons_rule -> calculate_schedule ->          *)
(* calculate_metrics and then displays the results.  A second             *)
(* specification, SpecSim, calls calculate_schedule and calculate_metrics  *)
(* directly with an arbitrary sequence argument.                           *)
(*                                                                         *)
(* Task indices are the program's zero-based indices; TLA+ sequences are   *)
(* one-based, so the task with index idx is processing_times[idx + 1].     *)
(* Processing times are integers (the table columns are integer columns).  *)
(* Quotients are kept as exact fractions [num, den].                       *)
(***************************************************************************)
EXTENDS Integers, Sequences, FiniteSets

VARIABLES
    processing_times,  \* list of (p1, p2) pairs read from the table
    pc,                \* position of the run
    tasks,             \* johnsons_rule: remaining (idx, (p1, p2)) entries
    left,              \* johnsons_rule: left partial sequence
    right,             \* johnsons_rule: right partial sequence
    sequence,          \* the sequence handed to calculate_schedule
    start_m1,          \* timing arrays returned by calculate_schedule
    finish_m1,
    start_m2,
    finish_m2,
    metrics,           \* the tuple returned by calculate_metrics
    outcome,           \* how the run ended
    errors,            \* messages reported through st.error
    called,            \* the core functions that were invoked
    displayed          \* the results section was rendered

vars == << processing_times, pc, tasks, left, right, sequence, start_m1,
           finish_m1, start_m2, finish_m2, metrics, outcome, errors, called,
           displayed >>

-----------------------------------------------------------------------------
(* Bounds of the model *)

MaxTasks == 3

MaxTime == 2

MaxSimTasks == 2

MaxSimTime == 2

-----------------------------------------------------------------------------
(* Input domains *)

\* All sequences over S of length at most n
SeqsUpTo(S, n) == UNION { [1..k -> S] : k \in 0..n }

\* Scenario C of the specification: [(4, 2), (1, 3)]
ScenarioC == << <<4, 2>>, <<1, 3>> >>

\* Scenario B of the specification: [(5, 3)]
ScenarioB == << <<5, 3>> >>

\* Tables the editor can hold in a run (negative entries are not prevented)
TableInputs ==
    SeqsUpTo((-1..MaxTime) \X (-1..MaxTime), MaxTasks) \cup {ScenarioB, ScenarioC}

\* Processing-time lists for direct calls of calculate_schedule
SimTables == SeqsUpTo((0..MaxSimTime) \X (0..MaxSimTime), MaxSimTasks)

\* Sequence arguments for direct calls, valid and malformed
SimSequences == SeqsUpTo(-1..MaxSimTasks, MaxSimTasks)

-----------------------------------------------------------------------------
(* Python list helpers *)

\* list(enumerate(xs))
Enumerate(xs) == [k \in 1..Len(xs) |-> <<k - 1, xs[k]>>]

\* Position (one-based) that Python's xs[idx] reads in a list of length n,
\* 0 when the access raises IndexError (negative indices count from the end)
PyIndex(n, idx) ==
    IF idx >= 0 /\ idx < n THEN idx + 1
    ELSE IF idx < 0 /\ idx >= -n THEN n + idx + 1
    ELSE 0

Max2(a, b) == IF a >= b THEN a ELSE b

Min2(a, b) == IF a <= b THEN a ELSE b

\* [0]*n
Zeros(n) == [k \in 1..n |-> 0]

-----------------------------------------------------------------------------
(* johnsons_rule *)

\* key=lambda x: min(x[1])
TaskKey(x) == Min2(x[2][1], x[2][2])

\* mutant of KeepBest: a later element replaces the best one on a tie
KeepBestOnTieLast(best, cand) ==
    IF TaskKey(cand) <= TaskKey(best) THEN cand ELSE best

\* min(): the running best is replaced only by a strictly smaller key
KeepBest(best, cand) ==
    IF TaskKey(cand) < TaskKey(best) THEN cand ELSE best

RECURSIVE MinScan(_, _, _)
MinScan(ts, k, best) ==
    IF k > Len(ts) THEN best
    ELSE MinScan(ts, k + 1, KeepBest(best, ts[k]))

\* min(tasks, key=...) on a non-empty list
PyMin(ts) == MinScan(ts, 2, ts[1])

\* mutant of ListRemove: drops the first element whatever it is
ListRemoveHead(ts, t) == Tail(ts)

\* tasks.remove(t): removes the first element equal to t
ListRemove(ts, t) ==
    LET hits == { k \in 1..Len(ts) : ts[k] = t }
        pos  == CHOOSE k \in hits : \A j \in hits : k <= j
    IN  [k \in 1..(Len(ts) - 1) |-> IF k < pos THEN ts[k] ELSE ts[k + 1]]

\* mutant of InsertFront: appends at the end instead
InsertBack(xs, idx) == Append(xs, idx)

\* right.insert(0, idx)
InsertFront(xs, idx) == <<idx>> \o xs

-----------------------------------------------------------------------------
(* calculate_schedule *)

\* mutant of StartM1: reads the previous start instead of the previous finish
StartM1FromStart(i, arr) == IF i > 1 THEN arr.start_m1[i - 1] ELSE 0

\* finish_m1[i-1] if i > 0 else 0 (i one-based here)
StartM1(i, arr) == IF i > 1 THEN arr.finish_m1[i - 1] ELSE 0

\* mutant of StartM2: machine 2 ignores its own previous finish
StartM2NoWait(prev_finish_m2, fin_m1) == fin_m1

\* max(finish_m2[i-1] if i > 0 else 0, finish_m1[i])
StartM2(prev_finish_m2, fin_m1) == Max2(prev_finish_m2, fin_m1)

\* One iteration of the loop, i one-based; arr holds the four arrays
ScheduleStep(pt, seq, i, arr) ==
    LET p   == pt[PyIndex(Len(pt), seq[i])]
        s1  == StartM1(i, arr)
        f1  == s1 + p[1]
        s2  == StartM2(IF i > 1 THEN arr.finish_m2[i - 1] ELSE 0, f1)
        f2  == s2 + p[2]
    IN  [ start_m1  |-> [arr.start_m1  EXCEPT ![i] = s1],
          finish_m1 |-> [arr.finish_m1 EXCEPT ![i] = f1],
          start_m2  |-> [arr.start_m2  EXCEPT ![i] = s2],
          finish_m2 |-> [arr.finish_m2 EXCEPT ![i] = f2] ]

RECURSIVE ScheduleLoop(_, _, _, _)
ScheduleLoop(pt, seq, i, arr) ==
    IF i > Len(seq) THEN arr
    ELSE ScheduleLoop(pt, seq, i + 1, ScheduleStep(pt, seq, i, arr))

\* processing_times[idx] raises IndexError for some idx of the sequence
RaisesIndexError(pt, seq) ==
    \E i \in 1..Len(seq) : PyIndex(Len(pt), seq[i]) = 0

\* calculate_schedule(processing_times, sequence)
calculate_schedule(pt, seq) ==
    IF RaisesIndexError(pt, seq)
    THEN [ raised |-> "IndexError", start_m1 |-> <<>>, finish_m1 |-> <<>>,
           start_m2 |-> <<>>, finish_m2 |-> <<>> ]
    ELSE LET n   == Len(seq)
             arr == ScheduleLoop(pt, seq, 1,
                        [ start_m1 |-> Zeros(n), finish_m1 |-> Zeros(n),
                          start_m2 |-> Zeros(n), finish_m2 |-> Zeros(n) ])
         IN  [ raised |-> "none", start_m1 |-> arr.start_m1,
               finish_m1 |-> arr.finish_m1, start_m2 |-> arr.start_m2,
               finish_m2 |-> arr.finish_m2 ]

-----------------------------------------------------------------------------
(* calculate_delays and calculate_metrics *)

\* mutant of DelayM1: operands of the subtraction swapped
DelayM1Swapped(makespan, last_finish_m1) == last_finish_m1 - makespan

\* delay_m1 = makespan - finish_m1[-1]
DelayM1(makespan, last_finish_m1) == makespan - last_finish_m1

\* if idle > 0: delay_m2 += idle
IdleAdded(idle) == IF idle > 0 THEN idle ELSE 0

RECURSIVE DelayM2Loop(_, _, _, _)
DelayM2Loop(s2, f2, i, acc) ==
    IF i > Len(s2) THEN acc
    ELSE DelayM2Loop(s2, f2, i + 1, acc + IdleAdded(s2[i] - f2[i - 1]))

\* calculate_delays(...) on non-empty arrays: (delay_m1, delay_m2)
calculate_delays(s1, f1, s2, f2, makespan) ==
    << DelayM1(makespan, f1[Len(f1)]), DelayM2Loop(s2, f2, 2, s2[1]) >>

\* mutant of Divide: a zero divisor yields not-a-number (den = 0) silently
DivideNaN(a, b) == [raised |-> FALSE, num |-> a, den |-> b]

\* a / b on Python numbers: ZeroDivisionError when b is zero
Divide(a, b) ==
    IF b = 0 THEN [raised |-> TRUE, num |-> 0, den |-> 1]
    ELSE [raised |-> FALSE, num |-> a, den |-> b]

\* exact sum, half and complement of fractions
FracAdd(x, y) == [num |-> x.num * y.den + y.num * x.den, den |-> x.den * y.den]

FracHalf(x) == [num |-> x.num, den |-> 2 * x.den]

OneMinus(x) == [num |-> x.den - x.num, den |-> x.den]

NoMetrics == [ makespan |-> -1, delay_m1 |-> -1, delay_m2 |-> -1,
               average_delay |-> [num |-> 0, den |-> 0],
               utilization |-> [num |-> 0, den |-> 0] ]

\* calculate_metrics(finish_m1, finish_m2, start_m1, start_m2)
calculate_metrics(f1, f2, s1, s2) ==
    IF Len(f2) = 0
    THEN [raised |-> "IndexError", value |-> NoMetrics]
    ELSE LET makespan == f2[Len(f2)]
             d  == calculate_delays(s1, f1, s2, f2, makespan)
             q1 == Divide(d[1], makespan)
             q2 == Divide(d[2], makespan)
             avg == FracHalf(FracAdd(q1, q2))
         IN  IF q1.raised \/ q2.raised
             THEN [raised |-> "ZeroDivisionError", value |-> NoMetrics]
             ELSE [ raised |-> "none",
                    value |-> [ makespan |-> makespan, delay_m1 |-> d[1],
                                delay_m2 |-> d[2], average_delay |-> avg,
                                utilization |-> OneMinus(avg) ] ]

-----------------------------------------------------------------------------
(* The calculate handler *)

\* mutant of AnyNegative: only machine 1 is validated
AnyNegativeM1Only(pt) == \E k \in 1..Len(pt) : pt[k][1] < 0

\* any(p1 < 0 or p2 < 0 for p1, p2 in processing_times)
AnyNegative(pt) == \E k \in 1..Len(pt) : pt[k][1] < 0 \/ pt[k][2] < 0

NonNegativeMsg == "Processing times must be non-negative!"

Blank ==
    /\ tasks = <<>> /\ left = <<>> /\ right = <<>>
    /\ start_m1 = <<>> /\ finish_m1 = <<>>
    /\ start_m2 = <<>> /\ finish_m2 = <<>>
    /\ metrics = NoMetrics /\ outcome = "none" /\ errors = <<>>
    /\ called = {} /\ displayed = FALSE

\* A run of the script with the button pressed
Init ==
    /\ processing_times \in TableInputs
    /\ pc = "button"
    /\ sequence = <<>>
    /\ Blank

\* A direct call of calculate_schedule with a caller-supplied sequence
InitSim ==
    /\ processing_times \in SimTables
    /\ sequence \in SimSequences
    /\ pc = "calculate_schedule"
    /\ Blank

\* if st.button(...): validation, then the call of johnsons_rule
Calculate ==
    /\ pc = "button"
    /\ IF AnyNegative(processing_times)
       THEN /\ errors' = Append(errors, NonNegativeMsg)
            /\ outcome' = "validation_error"
            /\ pc' = "done"
            /\ UNCHANGED << tasks, called >>
       ELSE /\ tasks' = Enumerate(processing_times)
            /\ called' = called \cup {"johnsons_rule"}
            /\ pc' = "johnsons_rule"
            /\ UNCHANGED << errors, outcome >>
    /\ UNCHANGED << processing_times, left, right, sequence, start_m1,
                    finish_m1, start_m2, finish_m2, metrics, displayed >>

\* One iteration of the while loop of johnsons_rule
JohnsonsStep ==
    /\ pc = "johnsons_rule"
    /\ tasks # <<>>
    /\ LET t   == PyMin(tasks)
           idx == t[1]
           p1  == t[2][1]
           p2  == t[2][2]
       IN  /\ IF p1 <= p2
              THEN left' = Append(left, idx) /\ right' = right
              ELSE right' = InsertFront(right, idx) /\ left' = left
           /\ tasks' = ListRemove(tasks, t)
    /\ UNCHANGED << processing_times, pc, sequence, start_m1, finish_m1,
                    start_m2, finish_m2, metrics, outcome, errors, called,
                    displayed >>

\* return left + right
JohnsonsReturn ==
    /\ pc = "johnsons_rule"
    /\ tasks = <<>>
    /\ sequence' = left \o right
    /\ pc' = "calculate_schedule"
    /\ UNCHANGED << processing_times, tasks, left, right, start_m1, finish_m1,
                    start_m2, finish_m2, metrics, outcome, errors, called,
                    displayed >>

\* The call of calculate_schedule
CalculateSchedule ==
    /\ pc = "calculate_schedule"
    /\ called' = called \cup {"calculate_schedule"}
    /\ LET r == calculate_schedule(processing_times, sequence)
       IN  IF r.raised # "none"
           THEN /\ outcome' = r.raised
                /\ pc' = "done"
                /\ UNCHANGED << start_m1, finish_m1, start_m2, finish_m2 >>
           ELSE /\ start_m1' = r.start_m1
                /\ finish_m1' = r.finish_m1
                /\ start_m2' = r.start_m2
                /\ finish_m2' = r.finish_m2
                /\ pc' = "calculate_metrics"
                /\ UNCHANGED outcome
    /\ UNCHANGED << processing_times, tasks, left, right, sequence, metrics,
                    errors, displayed >>

\* The call of calculate_metrics
CalculateMetrics ==
    /\ pc = "calculate_metrics"
    /\ called' = called \cup {"calculate_metrics"}
    /\ LET r == calculate_metrics(finish_m1, finish_m2, start_m1, start_m2)
       IN  IF r.raised # "none"
           THEN /\ outcome' = r.raised
                /\ pc' = "done"
                /\ UNCHANGED metrics
           ELSE /\ metrics' = r.value
                /\ outcome' = "ok"
                /\ pc' = "show"
    /\ UNCHANGED << processing_times, tasks, left, right, sequence, start_m1,
                    finish_m1, start_m2, finish_m2, errors, displayed >>

\* The results section and the Gantt chart
ShowResults ==
    /\ pc = "show"
    /\ displayed' = TRUE
    /\ pc' = "done"
    /\ UNCHANGED << processing_times, tasks, left, right, sequence, start_m1,
                    finish_m1, start_m2, finish_m2, metrics, outcome, errors,
                    called >>

Next ==
    \/ Calculate
    \/ JohnsonsStep
    \/ JohnsonsReturn
    \/ CalculateSchedule
    \/ CalculateMetrics
    \/ ShowResults

Spec == Init /\ [][Next]_vars

NextSim ==
    \/ CalculateSchedule
    \/ CalculateMetrics

SpecSim == InitSim /\ [][NextSim]_vars

-----------------------------------------------------------------------------
(* Vocabulary of the properties *)

NumTasks == Len(processing_times)

\* seq holds each index 0..n-1 exactly once and nothing else
IsPermutation(seq, n) ==
    /\ Len(seq) = n
    /\ \A idx \in 0..(n - 1) : Cardinality({ k \in 1..Len(seq) : seq[k] = idx }) = 1

IndexPermutations(n) == { s \in [1..n -> 0..(n - 1)] : IsPermutation(s, n) }

RECURSIVE SumTimes(_, _, _)
SumTimes(pt, m, k) == IF k = 0 THEN 0 ELSE pt[k][m] + SumTimes(pt, m, k - 1)

TotalP1 == SumTimes(processing_times, 1, NumTasks)

TotalP2 == SumTimes(processing_times, 2, NumTasks)

HasNegativeTime ==
    \E k \in 1..NumTasks : \E m \in 1..2 : processing_times[k][m] < 0

AllTimesZero ==
    \A k \in 1..NumTasks : processing_times[k] = <<0, 0>>

JohnsonsReturned ==
    "johnsons_rule" \in called /\ pc \notin {"button", "johnsons_rule"}

\* calculate_schedule was called and raised (calculate_metrics never ran)
ScheduleRaised ==
    /\ "calculate_schedule" \in called
    /\ "calculate_metrics" \notin called
    /\ outcome = "IndexError"

ScheduleReturned == "calculate_schedule" \in called /\ ~ScheduleRaised

\* processing times of the task at position i of the sequence
TimesAt(i) == processing_times[sequence[i] + 1]

-----------------------------------------------------------------------------
(* Properties *)

\* C1: for every list of n >= 0 non-negative pairs, identical pairs included,
\* johnsons_rule returns a sequence of length n that holds each index 0..n-1
\* exactly once.
C1_SequenceIsPermutation ==
    JohnsonsReturned =>
        /\ Len(sequence) = NumTasks
        /\ \A idx \in 0..(NumTasks - 1) :
              Cardinality({ k \in 1..Len(sequence) : sequence[k] = idx }) = 1
        /\ \A k \in 1..Len(sequence) : sequence[k] \in 0..(NumTasks - 1)

C1_Witness ==
    /\ JohnsonsReturned
    /\ NumTasks = 3
    /\ processing_times[1] = processing_times[3]
    /\ sequence[1] # 0

\* C2: the makespan calculate_schedule yields for johnsons_rule's sequence is
\* at most the makespan it yields for every permutation of the task indices
\* (stated where calculate_schedule has just returned the arrays).
C2_JohnsonOptimal ==
    (JohnsonsReturned /\ pc = "calculate_metrics" /\ NumTasks >= 1) =>
        \A perm \in IndexPermutations(NumTasks) :
            finish_m2[NumTasks]
                <= calculate_schedule(processing_times, perm).finish_m2[NumTasks]

C2_Witness ==
    /\ JohnsonsReturned /\ pc = "calculate_metrics"
    /\ Len(left) >= 1 /\ Len(right) >= 2
    /\ \E perm \in IndexPermutations(NumTasks) :
          finish_m2[NumTasks]
              < calculate_schedule(processing_times, perm).finish_m2[NumTasks]

\* C3: for a valid permutation the four arrays satisfy, at every position i,
\* start_m1[0] = 0, start_m1[i] = finish_m1[i-1], finish_m1[i] = start_m1[i] +
\* p1, start_m2[i] = max(finish_m2[i-1], finish_m1[i]) with 0 for i = 0, and
\* finish_m2[i] = start_m2[i] + p2.
C3_TimingRecurrence ==
    ("calculate_schedule" \in called /\ IsPermutation(sequence, NumTasks)) =>
        /\ ScheduleReturned
        /\ Len(start_m1) = NumTasks /\ Len(finish_m1) = NumTasks
        /\ Len(start_m2) = NumTasks /\ Len(finish_m2) = NumTasks
        /\ \A i \in 1..NumTasks :
              /\ start_m1[i] = (IF i = 1 THEN 0 ELSE finish_m1[i - 1])
              /\ finish_m1[i] = start_m1[i] + TimesAt(i)[1]
              /\ start_m2[i] =
                    (LET prev == IF i = 1 THEN 0 ELSE finish_m2[i - 1]
                     IN  IF prev >= finish_m1[i] THEN prev ELSE finish_m1[i])
              /\ finish_m2[i] = start_m2[i] + TimesAt(i)[2]

C3_Witness ==
    /\ "calculate_schedule" \in called
    /\ IsPermutation(sequence, NumTasks)
    /\ NumTasks = 2
    /\ sequence = <<1, 0>>
    /\ start_m1[2] > 0
    /\ start_m2[2] > finish_m1[2]
    /\ start_m2[1] > 0

\* C4: when the calculate action runs on a table with a negative processing
\* time, one validation failure is reported and none of johnsons_rule,
\* calculate_schedule, calculate_metrics runs; nothing is computed or shown.
C4_NegativeRejected ==
    (HasNegativeTime /\ pc # "button") =>
        /\ outcome = "validation_error"
        /\ Len(errors) = 1
        /\ called = {}
        /\ sequence = <<>>
        /\ start_m1 = <<>> /\ finish_m1 = <<>>
        /\ start_m2 = <<>> /\ finish_m2 = <<>>
        /\ metrics = NoMetrics
        /\ displayed = FALSE
        /\ pc = "done"

C4_Witness ==
    /\ pc = "done"
    /\ outcome = "validation_error"
    /\ NumTasks = 2
    /\ processing_times[1][1] >= 0 /\ processing_times[1][2] >= 0
    /\ processing_times[2][1] >= 0 /\ processing_times[2][2] < 0

\* C5: for a zero-length task list the sequence and the four arrays are empty
\* and calculate_metrics reports an explicit "no tasks" condition.
C5_EmptyReportsNoTasks ==
    (NumTasks = 0 /\ pc = "done") =>
        /\ sequence = <<>>
        /\ start_m1 = <<>> /\ finish_m1 = <<>>
        /\ start_m2 = <<>> /\ finish_m2 = <<>>
        /\ "calculate_metrics" \in called
        /\ outcome = "no_tasks"

\* C6: with n >= 1 tasks and a zero makespan calculate_metrics fails with an
\* error and returns no average_delay or utilization; a zero makespan arises
\* only when every processing time is zero.
C6_ZeroMakespanFails ==
    /\ ("calculate_metrics" \in called /\ NumTasks >= 1
            /\ finish_m2[NumTasks] = 0) =>
          /\ outcome = "ZeroDivisionError"
          /\ metrics = NoMetrics
          /\ displayed = FALSE
    /\ metrics # NoMetrics =>
          /\ metrics.makespan # 0
          /\ metrics.average_delay.den # 0
          /\ metrics.utilization.den # 0
    /\ (ScheduleReturned /\ NumTasks >= 1 /\ finish_m2[NumTasks] = 0) =>
          AllTimesZero

C6_Witness ==
    /\ pc = "done"
    /\ outcome = "ZeroDivisionError"
    /\ NumTasks = 2
    /\ finish_m2 = <<0, 0>>

\* C7: for a non-empty list of non-negative times with makespan > 0 the
\* pipeline yields utilization in [0, 1]: 0 <= delay_m1 + delay_m2 <=
\* 2 * makespan with 0 <= delay_m1 <= makespan and 0 <= delay_m2 <= makespan.
C7_UtilizationInUnitInterval ==
    (outcome = "ok" /\ NumTasks >= 1 /\ finish_m2[NumTasks] > 0) =>
        /\ metrics.makespan = finish_m2[NumTasks]
        /\ 0 <= metrics.delay_m1 /\ metrics.delay_m1 <= metrics.makespan
        /\ 0 <= metrics.delay_m2 /\ metrics.delay_m2 <= metrics.makespan
        /\ 0 <= metrics.delay_m1 + metrics.delay_m2
        /\ metrics.delay_m1 + metrics.delay_m2 <= 2 * metrics.makespan
        /\ metrics.utilization.den > 0
        /\ 0 <= metrics.utilization.num
        /\ metrics.utilization.num <= metrics.utilization.den

C7_Witness ==
    /\ outcome = "ok"
    /\ processing_times = ScenarioB
    /\ metrics.makespan = 8 /\ metrics.delay_m1 = 3 /\ metrics.delay_m2 = 5
    /\ 2 * metrics.utilization.num = metrics.utilization.den

\* C8: calculate_schedule fails fast whenever its sequence is not a valid
\* permutation of the indices (wrong length, duplicate, missing or
\* out-of-range index); it never returns timing arrays for such a sequence.
C8_MalformedSequenceFailsFast ==
    ("calculate_schedule" \in called /\ ~IsPermutation(sequence, NumTasks)) =>
        /\ ScheduleRaised
        /\ start_m1 = <<>> /\ finish_m1 = <<>>
        /\ start_m2 = <<>> /\ finish_m2 = <<>>

\* C9: every iteration of the johnsons_rule loop removes a task whose
\* min(p1, p2) is smallest among the remaining ones, the lowest original index
\* (and first in the remaining list) among those sharing it; it is appended to
\* left when p1 <= p2 and inserted at the front of right when p1 > p2; the
\* result is left followed by right; [(4, 2), (1, 3)] gives [1, 0].
C9_Iteration ==
    (pc = "johnsons_rule" /\ tasks # <<>> /\ tasks' # tasks) =>
        \E k \in 1..Len(tasks) :
            LET idx == tasks[k][1]
                p1  == tasks[k][2][1]
                p2  == tasks[k][2][2]
                m   == IF p1 <= p2 THEN p1 ELSE p2
                MinOf(j) == IF tasks[j][2][1] <= tasks[j][2][2]
                            THEN tasks[j][2][1] ELSE tasks[j][2][2]
            IN  /\ \A j \in 1..Len(tasks) : MinOf(j) >= m
                /\ \A j \in 1..Len(tasks) : MinOf(j) = m => tasks[j][1] >= idx
                /\ \A j \in 1..(k - 1) : MinOf(j) > m
                /\ tasks' = [j \in 1..(Len(tasks) - 1) |->
                                IF j < k THEN tasks[j] ELSE tasks[j + 1]]
                /\ p1 <= p2 => left' = left \o <<idx>> /\ right' = right
                /\ p1 > p2 => right' = <<idx>> \o right /\ left' = left

C9_Result ==
    /\ (pc = "johnsons_rule" /\ pc' # "johnsons_rule") =>
          tasks = <<>> /\ sequence' = left \o right
    /\ (pc = "johnsons_rule" /\ tasks # <<>>) => (pc' = pc /\ sequence' = sequence)
    /\ (processing_times = ScenarioC /\ JohnsonsReturned) => sequence = <<1, 0>>

C9_SelectionAndPlacement == [][C9_Iteration /\ C9_Result]_vars

C9_Witness ==
    /\ pc = "johnsons_rule"
    /\ NumTasks = 3
    /\ Len(tasks) = 2
    /\ tasks[1][1] = 1
    /\ Min2(tasks[1][2][1], tasks[1][2][2]) = Min2(tasks[2][2][1], tasks[2][2][2])
    /\ Len(right) = 1

\* C10: for arrays calculate_schedule produces from non-negative times and a
\* valid sequence every machine-2 gap start_m2[i] - finish_m2[i-1] is >= 0,
\* so delay_m2 = makespan - sum of p2 and delay_m1 = makespan - sum of p1.
C10_NoNegativeGap ==
    ("calculate_schedule" \in called /\ IsPermutation(sequence, NumTasks)
        /\ ~HasNegativeTime /\ NumTasks >= 1) =>
        /\ Len(start_m2) = NumTasks /\ Len(finish_m2) = NumTasks
        /\ \A i \in 2..NumTasks : start_m2[i] - finish_m2[i - 1] >= 0
        /\ calculate_delays(start_m1, finish_m1, start_m2, finish_m2,
                            finish_m2[NumTasks])
              = << finish_m2[NumTasks] - TotalP1, finish_m2[NumTasks] - TotalP2 >>
        /\ outcome = "ok" =>
              /\ metrics.delay_m1 = metrics.makespan - TotalP1
              /\ metrics.delay_m2 = metrics.makespan - TotalP2

C10_Witness ==
    /\ outcome = "ok"
    /\ IsPermutation(sequence, NumTasks)
    /\ NumTasks = 2
    /\ sequence = <<1, 0>>
    /\ start_m2[2] - finish_m2[1] > 0
    /\ start_m2[1] > 0
    /\ metrics.delay_m2 = start_m2[1] + (start_m2[2] - finish_m2[1])

=============================================================================
